---- MODULE Spec2Model ----
(***************************************************************************)
(* Server actions of app/lib/action.ts: createInvoice, updateInvoice,      *)
(* deleteInvoice and authenticate, together with the collaborators they    *)
(* call (the zod schema, the SQL store, the listing cache, the navigator   *)
(* and the sign-in provider).                                              *)
(*                                                                         *)
(* Numbers are exact rationals [num, den]; JavaScript's IEEE doubles agree *)
(* with them on every amount used here (100 * 0.005 is exactly 0.5, and    *)
(* 100 * 0.01 is exactly 1).                                               *)
(***************************************************************************)
EXTENDS Integers, Sequences, FiniteSets, TLC

(* ------------------------------ bounds -------------------------------- *)

\* Invocations of the invoice actions that interleave in SpecConc.
NumInv == 2

\* Ids the store hands out: the rows it holds at the start and the INSERTs
\* that succeed afterwards.
MaxRows == 2

(* ------------------------- form data entries -------------------------- *)

\* FormData.get(name) is null (no such field), a File, or a string.
Null == [type |-> "null"]
File == [type |-> "file"]
Str(s) == [type |-> "string", text |-> s]

\* Customers that exist in the store's customers table; "c9" is not one.
Customers == {"c1", "c2"}

CustomerEntries == {Null, File, Str("c1"), Str("c2"), Str("c9")}
AmountEntries == {Null, Str("abc"), Str("-1"), Str("0"), Str("0.005"), Str("0.01")}
StatusEntries == {Null, Str("pending"), Str("paid"), Str("draft")}

Forms == [customerId : CustomerEntries, amount : AmountEntries, status : StatusEntries]

\* The forms of the concurrent specification: one valid form per status,
\* one that violates the foreign key, one that fails validation.
ConcForms ==
    { [customerId |-> Str("c1"), amount |-> Str("0.01"), status |-> Str("paid")],
      [customerId |-> Str("c1"), amount |-> Str("0.01"), status |-> Str("pending")],
      [customerId |-> Str("c9"), amount |-> Str("0"), status |-> Str("paid")] }

\* The forms of the fair specification: those, and one that passes
\* validation and violates the foreign key.
FlowForms ==
    ConcForms \cup
    { [customerId |-> Str("c9"), amount |-> Str("0.005"), status |-> Str("pending")] }

\* new Date().toISOString().split('T')[0]: the server's calendar date.
Dates == {"2024-01-01"}

(* ------------------------------ numbers ------------------------------- *)

NaN == [nan |-> TRUE]
Rat(n, d) == [num |-> n, den |-> d]
IsNaN(x) == "nan" \in DOMAIN x
IsPositive(x) == x.num > 0

\* Number(v), the coercion of z.coerce.number(): Number(null) = 0,
\* Number("") = 0, a decimal literal is its value, anything else is NaN.
Number(entry) ==
    IF entry.type = "null" THEN Rat(0, 1)
    ELSE IF entry.type = "file" THEN NaN
    ELSE CASE entry.text = "-1" -> Rat(-1, 1)
           [] entry.text = "0" -> Rat(0, 1)
           [] entry.text = "" -> Rat(0, 1)
           [] entry.text = "0.005" -> Rat(5, 1000)
           [] entry.text = "0.01" -> Rat(1, 100)
           [] OTHER -> NaN

(* ------------------------------ FormSchema ---------------------------- *)

StatusValues == {"pending", "paid"}

\* customerId: z.string({invalid_type_error})
customerIdIssues(entry) ==
    IF entry.type = "string" THEN <<>> ELSE <<"Please select a customer.">>

\* Mutant of amountIssues: .gte(0) where the schema says .gt(0).
amountIssuesGte(entry) ==
    IF IsNaN(Number(entry)) THEN <<"Expected number, received nan">>
    ELSE IF Number(entry).num >= 0 THEN <<>>
    ELSE <<"Please enter an amount greater than $0.">>

\* amount: z.coerce.number().gt(0, {message})
amountIssues(entry) ==
    IF IsNaN(Number(entry)) THEN <<"Expected number, received nan">>
    ELSE IF IsPositive(Number(entry)) THEN <<>>
    ELSE <<"Please enter an amount greater than $0.">>

\* Mutant of statusIssues: z.string() where the schema says z.enum.
statusIssuesAnyString(entry) ==
    IF entry.type # "string" THEN <<"Please select an invoice status.">> ELSE <<>>

\* status: z.enum(['pending', 'paid'], {invalid_type_error}); the message of
\* a string outside the enum quotes it, and "draft" is the one submitted here.
statusIssues(entry) ==
    IF entry.type # "string" THEN <<"Please select an invoice status.">>
    ELSE IF entry.text \in StatusValues THEN <<>>
    ELSE <<"Invalid enum value. Expected 'pending' | 'paid', received 'draft'">>

Fields == {"customerId", "amount", "status"}

issues(raw) ==
    [f \in Fields |->
        CASE f = "customerId" -> customerIdIssues(raw.customerId)
          [] f = "amount" -> amountIssues(raw.amount)
          [] f = "status" -> statusIssues(raw.status)]

\* error.flatten().fieldErrors: the messages of each field that has any.
fieldErrors(raw) ==
    [f \in {g \in Fields : issues(raw)[g] # <<>>} |-> issues(raw)[f]]

\* CreateInvoice.safeParse(raw), CreateInvoice = FormSchema.omit({id, date}).
CreateInvoice(raw) ==
    IF \A f \in Fields : issues(raw)[f] = <<>>
    THEN [success |-> TRUE,
          data |-> [customerId |-> raw.customerId.text,
                    amount |-> Number(raw.amount),
                    status |-> raw.status.text]]
    ELSE [success |-> FALSE, fieldErrors |-> fieldErrors(raw)]

\* UpdateInvoice = FormSchema.omit({id, date}): the same schema.
UpdateInvoice(raw) == CreateInvoice(raw)

\* const amountInCents = 100 * amount
amountInCents(amount) == Rat(100 * amount.num, amount.den)

(* ------------------------------- state -------------------------------- *)

VARIABLES
    pc,       \* pc[i]: where invocation i is in its action
    op,       \* op[i]: the action invocation i runs
    id,       \* id[i]: the id argument of updateInvoice and deleteInvoice
    formData, \* formData[i]: the submitted form
    params,   \* params[i]: the values bound into the SQL statement
    result,   \* result[i]: how the invocation ended
    trace,    \* trace[i]: the collaborators the invocation has called, in order
    thrown,   \* thrown[i]: the error signIn rejected with
    invoices, \* the invoices table: id -> row
    nextId,   \* the store's id generator
    stale,    \* the listing route's cache entry is marked for recomputation
    listing   \* the cached listing

vars == <<pc, op, id, formData, params, result, trace, thrown, invoices, nextId, stale, listing>>

Procs == 1 .. NumInv
Ids == 1 .. MaxRows

ListingPath == "/dashboard/invoices"

NoForm == [none |-> TRUE]
NoParams == [none |-> TRUE]
NoError == [none |-> TRUE]
Pending == [kind |-> "pending"]

\* A returned State object: a function from the keys it carries.
Returned(state) == [kind |-> "state", state |-> state]
\* The function ran off its end: it returned undefined.
ReturnedNothing == [kind |-> "undefined"]
\* redirect() left the action through the framework's navigation signal.
RedirectedTo(path) == [kind |-> "redirect", path |-> path]
\* An error left the action.
Thrown(error) == [kind |-> "throw", error |-> error]

\* No invocation has been made.
InitInvocations ==
    /\ pc = [i \in Procs |-> "Idle"]
    /\ op = [i \in Procs |-> "none"]
    /\ id = [i \in Procs |-> 0]
    /\ formData = [i \in Procs |-> NoForm]
    /\ params = [i \in Procs |-> NoParams]
    /\ result = [i \in Procs |-> Pending]
    /\ trace = [i \in Procs |-> <<>>]
    /\ thrown = [i \in Procs |-> NoError]

Init ==
    /\ InitInvocations
    /\ invoices = <<>>
    /\ nextId = 1
    /\ stale = FALSE
    /\ listing = <<>>

store == <<invoices, nextId>>
cache == <<stale, listing>>

(* ----------------------- createInvoice / updateInvoice ---------------- *)

\* The form is submitted: createInvoice(prevState, formData) is entered.
createInvoice(i, form) ==
    /\ pc[i] = "Idle"
    /\ pc' = [pc EXCEPT ![i] = "Validating"]
    /\ op' = [op EXCEPT ![i] = "create"]
    /\ formData' = [formData EXCEPT ![i] = form]
    /\ UNCHANGED <<id, params, result, trace, thrown, store, cache>>

\* updateInvoice(id, prevState, formData) is entered.
updateInvoice(i, anId, form) ==
    /\ pc[i] = "Idle"
    /\ pc' = [pc EXCEPT ![i] = "Validating"]
    /\ op' = [op EXCEPT ![i] = "update"]
    /\ id' = [id EXCEPT ![i] = anId]
    /\ formData' = [formData EXCEPT ![i] = form]
    /\ UNCHANGED <<params, result, trace, thrown, store, cache>>

SummaryMessage(o) ==
    IF o = "create" THEN "Missing Fields. Failed to Create Invoice."
    ELSE "Missing Fields. Failed to Update Invoice."

\* What createInvoice binds into its INSERT.
createParams(data, date) ==
    [customerId |-> data.customerId, amountInCents |-> amountInCents(data.amount),
     status |-> data.status, date |-> date]

\* What updateInvoice binds into its UPDATE.
updateParams(data, anId) ==
    [customerId |-> data.customerId, amountInCents |-> amountInCents(data.amount),
     status |-> data.status, id |-> anId]

\* safeParse and the branch on validatedFields.success; on success the
\* statement is prepared and issued, and the action awaits the store.
validate(i) ==
    /\ pc[i] = "Validating"
    /\ LET validatedFields ==
            IF op[i] = "create" THEN CreateInvoice(formData[i])
            ELSE UpdateInvoice(formData[i])
       IN  IF ~validatedFields.success
           THEN /\ pc' = [pc EXCEPT ![i] = "Invalid"]
                /\ result' = [result EXCEPT ![i] =
                        Returned([errors |-> validatedFields.fieldErrors,
                                  message |-> SummaryMessage(op[i])])]
                /\ UNCHANGED <<params, trace>>
           ELSE /\ pc' = [pc EXCEPT ![i] = "Persisting"]
                /\ \E date \in Dates :
                      params' = [params EXCEPT ![i] =
                          IF op[i] = "create"
                          THEN createParams(validatedFields.data, date)
                          ELSE updateParams(validatedFields.data, id[i])]
                /\ trace' = [trace EXCEPT ![i] = Append(@, "sql")]
                /\ UNCHANGED result
    /\ UNCHANGED <<op, id, formData, thrown, store, cache>>

(* ------------------------------ deleteInvoice ------------------------- *)

\* deleteInvoice(id) is entered and its DELETE issued.
deleteInvoice(i, anId) ==
    /\ pc[i] = "Idle"
    /\ pc' = [pc EXCEPT ![i] = "Persisting"]
    /\ op' = [op EXCEPT ![i] = "delete"]
    /\ id' = [id EXCEPT ![i] = anId]
    /\ params' = [params EXCEPT ![i] = [id |-> anId]]
    /\ trace' = [trace EXCEPT ![i] = Append(@, "sql")]
    /\ UNCHANGED <<formData, result, thrown, store, cache>>

(* ------------------------------ the store ----------------------------- *)

\* INSERT INTO invoices (customer_id, amount, status, date) VALUES (...)
Insert(table, newId, p) ==
    [r \in DOMAIN table \cup {newId} |->
        IF r = newId
        THEN [customer_id |-> p.customerId, amount |-> p.amountInCents,
              status |-> p.status, date |-> p.date]
        ELSE table[r]]

\* Mutant of Update: the statement without its WHERE clause.
UpdateEveryRow(table, p) ==
    [r \in DOMAIN table |->
        [table[r] EXCEPT !.customer_id = p.customerId,
                         !.amount = p.amountInCents,
                         !.status = p.status]]

\* UPDATE invoices SET customer_id, amount, status WHERE id
Update(table, p) ==
    [r \in DOMAIN table |->
        IF r = p.id
        THEN [table[r] EXCEPT !.customer_id = p.customerId,
                              !.amount = p.amountInCents,
                              !.status = p.status]
        ELSE table[r]]

\* Mutant of Delete: the statement without its WHERE clause.
DeleteEveryRow(table, p) == [r \in {} |-> table[r]]

\* DELETE FROM invoices WHERE id
Delete(table, p) == [r \in DOMAIN table \ {p.id} |-> table[r]]

\* The statement writes a row whose customer_id references no customer.
ViolatesForeignKey(o, table, p) ==
    \/ o = "create" /\ p.customerId \notin Customers
    \/ o = "update" /\ p.id \in DOMAIN table /\ p.customerId \notin Customers

DatabaseError(o) ==
    CASE o = "create" -> "Database Error: Failed to Create Invoice."
      [] o = "update" -> "Database Error: Failed to Update Invoice."
      [] o = "delete" -> "Database Error: Failed to Delete Invoice."

\* The awaited statement completes and the action goes on past the try.
sqlSucceeds(i) ==
    /\ pc[i] = "Persisting"
    /\ ~ViolatesForeignKey(op[i], invoices, params[i])
    /\ op[i] = "create" => nextId <= MaxRows
    /\ invoices' = CASE op[i] = "create" -> Insert(invoices, nextId, params[i])
                     [] op[i] = "update" -> Update(invoices, params[i])
                     [] op[i] = "delete" -> Delete(invoices, params[i])
    /\ nextId' = IF op[i] = "create" THEN nextId + 1 ELSE nextId
    /\ pc' = [pc EXCEPT ![i] = "Succeeded"]
    /\ UNCHANGED <<op, id, formData, params, result, trace, thrown, cache>>

\* Mutant of sqlFails: revalidatePath in a finally block, run on failure too.
sqlFailsRevalidating(i) ==
    /\ pc[i] = "Persisting"
    /\ pc' = [pc EXCEPT ![i] = "Failed"]
    /\ result' = [result EXCEPT ![i] = Returned([message |-> DatabaseError(op[i])])]
    /\ stale' = TRUE
    /\ trace' = [trace EXCEPT ![i] = Append(@, "revalidatePath")]
    /\ UNCHANGED <<op, id, formData, params, thrown, store, listing>>

\* Mutant of sqlFails: the catch block rethrows the store's error.
sqlFailsRethrows(i) ==
    /\ pc[i] = "Persisting"
    /\ pc' = [pc EXCEPT ![i] = "Failed"]
    /\ result' = [result EXCEPT ![i] = Thrown([class |-> "Error", type |-> "DatabaseError"])]
    /\ UNCHANGED <<op, id, formData, params, trace, thrown, store, cache>>

\* The awaited statement rejects (a constraint, the connection, a full
\* store); the catch block returns the action's message.
sqlFails(i) ==
    /\ pc[i] = "Persisting"
    /\ pc' = [pc EXCEPT ![i] = "Failed"]
    /\ result' = [result EXCEPT ![i] = Returned([message |-> DatabaseError(op[i])])]
    /\ UNCHANGED <<op, id, formData, params, trace, thrown, store, cache>>

(* ------------------------ cache and navigation ------------------------ *)

\* Mutant of revalidatePath: createInvoice and updateInvoice call redirect
\* first, which leaves the action before revalidatePath can run.
redirectFirst(i) ==
    /\ pc[i] = "Succeeded"
    /\ IF op[i] = "delete"
       THEN /\ stale' = TRUE
            /\ trace' = [trace EXCEPT ![i] = Append(@, "revalidatePath")]
            /\ pc' = [pc EXCEPT ![i] = "Invalidated"]
            /\ result' = [result EXCEPT ![i] = ReturnedNothing]
       ELSE /\ stale' = stale
            /\ trace' = [trace EXCEPT ![i] = Append(@, "redirect")]
            /\ pc' = [pc EXCEPT ![i] = "Redirected"]
            /\ result' = [result EXCEPT ![i] = RedirectedTo(ListingPath)]
    /\ UNCHANGED <<op, id, formData, params, thrown, store, listing>>

\* Mutant of revalidatePath: the call names another route, and the listing
\* route's entry stays as it is.
revalidateOtherPath(i) ==
    /\ pc[i] = "Succeeded"
    /\ stale' = stale
    /\ trace' = [trace EXCEPT ![i] = Append(@, "revalidatePath")]
    /\ pc' = [pc EXCEPT ![i] = "Invalidated"]
    /\ result' = [result EXCEPT ![i] =
                    IF op[i] = "delete" THEN ReturnedNothing ELSE @]
    /\ UNCHANGED <<op, id, formData, params, thrown, store, listing>>

\* revalidatePath('/dashboard/invoices'); deleteInvoice ends after it.
revalidatePath(i) ==
    /\ pc[i] = "Succeeded"
    /\ stale' = TRUE
    /\ trace' = [trace EXCEPT ![i] = Append(@, "revalidatePath")]
    /\ pc' = [pc EXCEPT ![i] = "Invalidated"]
    /\ result' = [result EXCEPT ![i] =
                    IF op[i] = "delete" THEN ReturnedNothing ELSE @]
    /\ UNCHANGED <<op, id, formData, params, thrown, store, listing>>

\* redirect('/dashboard/invoices')
redirect(i) ==
    /\ pc[i] = "Invalidated"
    /\ op[i] \in {"create", "update"}
    /\ trace' = [trace EXCEPT ![i] = Append(@, "redirect")]
    /\ pc' = [pc EXCEPT ![i] = "Redirected"]
    /\ result' = [result EXCEPT ![i] = RedirectedTo(ListingPath)]
    /\ UNCHANGED <<op, id, formData, params, thrown, store, cache>>

\* A request for the listing route finds its entry stale and recomputes it.
readListing ==
    /\ stale
    /\ listing' = invoices
    /\ stale' = FALSE
    /\ UNCHANGED <<pc, op, id, formData, params, result, trace, thrown, store>>

(* ------------------------------ authenticate -------------------------- *)

\* What signIn can throw: AuthErrors by type, and errors of other classes
\* (one of them carrying the same type field as a credentials failure).
AuthError(type) == [class |-> "AuthError", type |-> type]
OtherError(type) == [class |-> "Error", type |-> type]
SignInErrors ==
    {AuthError("CredentialsSignin"), AuthError("CallbackRouteError"),
     AuthError("AccessDenied"), OtherError("NEXT_REDIRECT"),
     OtherError("CredentialsSignin")}

\* authenticate(prevState, formData) is entered and signIn called.
authenticate(i) ==
    /\ pc[i] = "Idle"
    /\ pc' = [pc EXCEPT ![i] = "SigningIn"]
    /\ op' = [op EXCEPT ![i] = "authenticate"]
    /\ trace' = [trace EXCEPT ![i] = Append(@, "signIn")]
    /\ UNCHANGED <<id, formData, params, result, thrown, store, cache>>

\* Mutant of catchSignIn: the switch on error.type without the instanceof test.
catchSignInByType(error) ==
    IF error.type = "CredentialsSignin"
    THEN Returned([message |-> "Invalid credentials."])
    ELSE IF error.class = "AuthError"
         THEN Returned([message |-> "Something went wrong."])
         ELSE Thrown(error)

\* The catch block of authenticate.
catchSignIn(error) ==
    IF error.class = "AuthError"
    THEN IF error.type = "CredentialsSignin"
         THEN Returned([message |-> "Invalid credentials."])
         ELSE Returned([message |-> "Something went wrong."])
    ELSE Thrown(error)

\* signIn resolves: authenticate runs off its end.
signInResolves(i) ==
    /\ pc[i] = "SigningIn"
    /\ pc' = [pc EXCEPT ![i] = "SignedIn"]
    /\ result' = [result EXCEPT ![i] = ReturnedNothing]
    /\ UNCHANGED <<op, id, formData, params, trace, thrown, store, cache>>

\* signIn rejects with an error.
signInRejects(i, error) ==
    /\ pc[i] = "SigningIn"
    /\ pc' = [pc EXCEPT ![i] = "SignInFailed"]
    /\ thrown' = [thrown EXCEPT ![i] = error]
    /\ result' = [result EXCEPT ![i] = catchSignIn(error)]
    /\ UNCHANGED <<op, id, formData, params, trace, store, cache>>

(* --------------------------- specifications --------------------------- *)

Terminal(i) ==
    \/ pc[i] \in {"Invalid", "Failed", "Redirected", "SignedIn", "SignInFailed"}
    \/ pc[i] = "Invalidated" /\ op[i] = "delete"

\* The caller has the outcome; the next submission starts afresh.
nextRequest(i) ==
    /\ Terminal(i)
    /\ pc' = [pc EXCEPT ![i] = "Idle"]
    /\ op' = [op EXCEPT ![i] = "none"]
    /\ id' = [id EXCEPT ![i] = 0]
    /\ formData' = [formData EXCEPT ![i] = NoForm]
    /\ params' = [params EXCEPT ![i] = NoParams]
    /\ result' = [result EXCEPT ![i] = Pending]
    /\ trace' = [trace EXCEPT ![i] = <<>>]
    /\ thrown' = [thrown EXCEPT ![i] = NoError]
    /\ UNCHANGED <<store, cache>>

\* One caller submitting one request after another, over every form.
Next ==
    \/ \E form \in Forms : createInvoice(1, form)
    \/ \E anId \in Ids, form \in Forms : updateInvoice(1, anId, form)
    \/ \E anId \in Ids : deleteInvoice(1, anId)
    \/ authenticate(1)
    \/ validate(1)
    \/ sqlSucceeds(1)
    \/ sqlFails(1)
    \/ revalidatePath(1)
    \/ redirect(1)
    \/ signInResolves(1)
    \/ \E error \in SignInErrors : signInRejects(1, error)
    \/ nextRequest(1)

Spec == Init /\ [][Next]_vars

\* One caller of createInvoice and updateInvoice, over a form for each way a
\* submission can go. An action that is not awaiting the store runs on: its
\* synchronous statements are never suspended, and an awaited statement
\* settles.
NextFlow ==
    \/ \E form \in FlowForms : createInvoice(1, form)
    \/ \E anId \in Ids, form \in FlowForms : updateInvoice(1, anId, form)
    \/ validate(1)
    \/ sqlSucceeds(1)
    \/ sqlFails(1)
    \/ revalidatePath(1)
    \/ redirect(1)
    \/ nextRequest(1)

FairSpec ==
    /\ Init
    /\ [][NextFlow]_vars
    /\ WF_vars(validate(1))
    /\ WF_vars(sqlSucceeds(1) \/ sqlFails(1))
    /\ WF_vars(revalidatePath(1))
    /\ WF_vars(redirect(1))

\* The row an earlier createInvoice of a pending invoice has left.
SeedRow(date) ==
    LET form == [customerId |-> Str("c1"), amount |-> Str("0.01"), status |-> Str("pending")]
    IN  Insert(<<>>, 1, createParams(CreateInvoice(form).data, date))[1]

\* The store holds the rows of earlier requests, with room for one more, and
\* the listing was computed from it.
InitConc ==
    /\ InitInvocations
    /\ \E n \in 0 .. MaxRows - 1 :
          /\ invoices \in [1 .. n -> {SeedRow(date) : date \in Dates}]
          /\ nextId = n + 1
    /\ stale = FALSE
    /\ listing = invoices

\* NumInv invocations of the invoice actions, interleaved with one another
\* and with the listing's readers.
NextConc ==
    \/ \E i \in Procs, form \in ConcForms : createInvoice(i, form)
    \/ \E i \in Procs, anId \in Ids, form \in ConcForms : updateInvoice(i, anId, form)
    \/ \E i \in Procs, anId \in Ids : deleteInvoice(i, anId)
    \/ \E i \in Procs : validate(i)
    \/ \E i \in Procs : sqlSucceeds(i)
    \/ \E i \in Procs : sqlFails(i)
    \/ \E i \in Procs : revalidatePath(i)
    \/ \E i \in Procs : redirect(i)
    \/ readListing

SpecConc == InitConc /\ [][NextConc]_vars

(* ------------------------------- claims ------------------------------- *)

FormAction(i) == op[i] \in {"create", "update"}
Ended(i) == result[i] # Pending
Validated(i) == FormAction(i) /\ pc[i] # "Validating"
StatementSucceeded(i) == pc[i] \in {"Succeeded", "Invalidated", "Redirected"}
IsStateObject(r) == r.kind = "state"

\* The invocation's next statement can run.
CanStep(i) ==
    ENABLED (validate(i) \/ sqlSucceeds(i) \/ sqlFails(i) \/ revalidatePath(i) \/ redirect(i))

(* C1 *)

C1_Edges ==
    { <<"Idle", "Validating">>, <<"Validating", "Invalid">>,
      <<"Validating", "Persisting">>, <<"Persisting", "Failed">>,
      <<"Persisting", "Succeeded">>, <<"Succeeded", "Invalidated">>,
      <<"Invalidated", "Redirected">> }
C1_Terminals == {"Invalid", "Failed", "Redirected"}

C1_Step(i) ==
    (FormAction(i) \/ FormAction(i)') =>
        \/ pc'[i] = pc[i] /\ trace'[i] = trace[i] /\ result'[i] = result[i]
        \/ <<pc[i], pc'[i]>> \in C1_Edges
        \/ pc[i] \in C1_Terminals /\ pc'[i] = "Idle"

C1_State(i) ==
    FormAction(i) =>
        /\ Ended(i) <=> pc[i] \in C1_Terminals
        /\ pc[i] \notin C1_Terminals => CanStep(i)
        /\ pc[i] \in {"Validating", "Invalid"} => trace[i] = <<>>
        /\ pc[i] \in {"Persisting", "Failed", "Succeeded"} => trace[i] = <<"sql">>
        /\ pc[i] = "Invalidated" => trace[i] = <<"sql", "revalidatePath">> /\ stale
        /\ pc[i] = "Redirected" =>
              /\ trace[i] = <<"sql", "revalidatePath", "redirect">>
              /\ stale
              /\ result[i] = [kind |-> "redirect", path |-> "/dashboard/invoices"]

\* C1: an invocation of createInvoice or updateInvoice moves only along
\* Idle -> Validating -> {Invalid | Persisting -> {Failed | Succeeded ->
\* Invalidated -> Redirected}}; it has ended exactly when it is in Invalid,
\* Failed or Redirected, and until then it can always take its next step;
\* revalidatePath is called only after the statement succeeded and redirect
\* only after revalidatePath; every submission reaches a terminal state, and
\* one whose statement succeeded reaches Redirected.
C1_StateMachine ==
    /\ [][\A i \in Procs : C1_Step(i)]_vars
    /\ [](\A i \in Procs : C1_State(i))
    /\ \A i \in Procs :
          (FormAction(i) /\ pc[i] = "Validating")
              ~> (FormAction(i) /\ pc[i] \in C1_Terminals)
    /\ \A i \in Procs :
          (FormAction(i) /\ pc[i] = "Succeeded")
              ~> (FormAction(i) /\ pc[i] = "Redirected")

C1_Witness ==
    /\ op[1] = "create"
    /\ pc[1] = "Redirected"
    /\ trace[1] = <<"sql", "revalidatePath", "redirect">>
    /\ invoices # <<>>

(* C2 *)

C2_AmountOf(i) == Number(formData[i].amount)
IsInteger(x) == x.num % x.den = 0
RatEq(x, y) == x.num * y.den = y.num * x.den
\* Math.round: the nearest integer, halves up.
Round(x) == Rat((2 * x.num + x.den) \div (2 * x.den), 1)
C2_Message == "Please enter an amount greater than $0."

\* C2: once createInvoice or updateInvoice has validated a form whose amount
\* is a number a: if a <= 0 the action ended Invalid with errors.amount
\* holding the message 'Please enter an amount greater than $0.'; if a > 0
\* the amount passed validation, and the amount bound into the statement is
\* the integer round(100 a).
C2_AmountRule ==
    \A i \in Procs :
        (Validated(i) /\ ~IsNaN(C2_AmountOf(i))) =>
            IF C2_AmountOf(i).num <= 0
            THEN /\ pc[i] = "Invalid"
                 /\ "amount" \in DOMAIN result[i].state.errors
                 /\ result[i].state.errors.amount = <<C2_Message>>
            ELSE /\ pc[i] = "Invalid" => "amount" \notin DOMAIN result[i].state.errors
                 /\ pc[i] # "Invalid" =>
                       /\ IsInteger(params[i].amountInCents)
                       /\ RatEq(params[i].amountInCents, Round(amountInCents(C2_AmountOf(i))))

(* C3 *)

C3_Message(i) ==
    IF op[i] = "create" THEN "Database Error: Failed to Create Invoice."
    ELSE "Database Error: Failed to Update Invoice."

C3_Step(i) ==
    /\ (FormAction(i) /\ pc[i] = "Persisting" /\ pc'[i] = "Failed") =>
          /\ invoices' = invoices /\ nextId' = nextId
          /\ stale' = stale /\ listing' = listing
          /\ trace'[i] = trace[i]
    /\ (FormAction(i) /\ pc[i] = "Failed") =>
          \/ pc'[i] = "Failed" /\ trace'[i] = trace[i] /\ result'[i] = result[i]
          \/ pc'[i] = "Idle"

\* C3: when the statement of createInvoice or updateInvoice fails, the
\* action has issued it once and called nothing else, the failing step
\* changes neither the store nor the cache, the action returns exactly
\* {message: 'Database Error: Failed to Create/Update Invoice.'} with no
\* errors key, and nothing follows but the next request; a statement whose
\* customerId violates the foreign key always fails.
C3_DatabaseError ==
    /\ [][\A i \in Procs : C3_Step(i)]_vars
    /\ [](\A i \in Procs :
            /\ (FormAction(i) /\ pc[i] = "Failed") =>
                  /\ trace[i] = <<"sql">>
                  /\ result[i] = [kind |-> "state", state |-> [message |-> C3_Message(i)]]
                  /\ DOMAIN result[i].state = {"message"}
            /\ (op[i] = "create" /\ pc[i] \in {"Succeeded", "Invalidated", "Redirected"})
                  => params[i].customerId \in Customers)

C3_Witness ==
    /\ op[1] = "create"
    /\ pc[1] = "Failed"
    /\ params[1].customerId = "c9"
    /\ result[1].state.message = "Database Error: Failed to Create Invoice."

(* C4 *)

\* The fields of a form the schema has to reject.
C4_Offending(form) ==
    {f \in {"customerId"} : form.customerId.type # "string"}
    \cup {f \in {"amount"} : IsNaN(Number(form.amount)) \/ Number(form.amount).num <= 0}
    \cup {f \in {"status"} :
            form.status.type # "string" \/ form.status.text \notin {"pending", "paid"}}

C4_Summary(i) ==
    IF op[i] = "create" THEN "Missing Fields. Failed to Create Invoice."
    ELSE "Missing Fields. Failed to Update Invoice."

C4_Step(i) ==
    (FormAction(i) /\ pc[i] = "Validating" /\ pc'[i] = "Invalid") =>
        /\ invoices' = invoices /\ nextId' = nextId
        /\ stale' = stale /\ listing' = listing

\* C4: createInvoice and updateInvoice fail validation exactly when some
\* field is offending (customerId not a string, amount not a number or
\* <= 0, status missing or outside {pending, paid}); they then return,
\* without throwing, a state with the action's summary message and an
\* errors map whose keys are exactly the offending fields, each with at
\* least one message; no statement was issued, nothing was bound, and the
\* step changes neither the store nor the cache.
C4_ValidationFailure ==
    /\ [][\A i \in Procs : C4_Step(i)]_vars
    /\ [](\A i \in Procs : Validated(i) =>
            /\ pc[i] = "Invalid" <=> C4_Offending(formData[i]) # {}
            /\ pc[i] = "Invalid" =>
                  /\ IsStateObject(result[i])
                  /\ DOMAIN result[i].state = {"errors", "message"}
                  /\ result[i].state.message = C4_Summary(i)
                  /\ DOMAIN result[i].state.errors = C4_Offending(formData[i])
                  /\ \A f \in DOMAIN result[i].state.errors :
                        Len(result[i].state.errors[f]) >= 1
                  /\ trace[i] = <<>>
                  /\ params[i] = NoParams)

C4_Witness ==
    /\ op[1] = "update"
    /\ pc[1] = "Invalid"
    /\ DOMAIN result[1].state.errors = {"customerId", "amount", "status"}
    /\ invoices # <<>>

(* C5 *)

C5_StatusAllowed(entry) == entry.type = "string" /\ entry.text \in {"pending", "paid"}

\* C5: once createInvoice or updateInvoice has validated a form, a status
\* that is missing, not a string or outside {pending, paid} has made it end
\* Invalid with an errors.status entry, and a status in {pending, paid} has
\* contributed no errors.status entry.
C5_StatusRule ==
    \A i \in Procs : Validated(i) =>
        IF C5_StatusAllowed(formData[i].status)
        THEN pc[i] = "Invalid" => "status" \notin DOMAIN result[i].state.errors
        ELSE /\ pc[i] = "Invalid"
             /\ "status" \in DOMAIN result[i].state.errors
             /\ Len(result[i].state.errors.status) >= 1

C5_Witness ==
    /\ op[1] = "create"
    /\ pc[1] = "Invalid"
    /\ formData[1].status = Null
    /\ DOMAIN result[1].state.errors = {"status"}

(* C6 *)

\* C6: when signIn rejects, authenticate returns {message: 'Invalid
\* credentials.'} for an AuthError of type CredentialsSignin, {message:
\* 'Something went wrong.'} for an AuthError of any other type, and lets an
\* error that is not an AuthError leave the action as it is, whatever its
\* type field says.
C6_AuthMapping ==
    \A i \in Procs : (op[i] = "authenticate" /\ pc[i] = "SignInFailed") =>
        IF thrown[i].class = "AuthError"
        THEN IF thrown[i].type = "CredentialsSignin"
             THEN result[i] = [kind |-> "state", state |-> [message |-> "Invalid credentials."]]
             ELSE result[i] = [kind |-> "state", state |-> [message |-> "Something went wrong."]]
        ELSE result[i] = [kind |-> "throw", error |-> thrown[i]]

C6_Witness ==
    /\ op[1] = "authenticate"
    /\ pc[1] = "SignInFailed"
    /\ thrown[1] = [class |-> "Error", type |-> "CredentialsSignin"]
    /\ result[1].kind = "throw"

(* C7 *)

C7_Step(i) ==
    /\ (op[i] = "delete" /\ pc[i] = "Persisting" /\ pc'[i] = "Succeeded") =>
          /\ DOMAIN invoices' = DOMAIN invoices \ {id[i]}
          /\ \A r \in DOMAIN invoices' : invoices'[r] = invoices[r]
          /\ id[i] \notin DOMAIN invoices => invoices' = invoices
          /\ nextId' = nextId
          /\ stale' = stale /\ listing' = listing
    /\ (op[i] = "delete" /\ pc[i] = "Persisting" /\ pc'[i] = "Failed") =>
          /\ invoices' = invoices /\ nextId' = nextId
          /\ stale' = stale /\ listing' = listing
    /\ (op[i] = "delete" /\ pc[i] = "Succeeded" /\ pc'[i] # pc[i]) =>
          pc'[i] = "Invalidated" /\ stale' /\ invoices' = invoices
    /\ (op[i] = "delete" /\ pc[i] \in {"Invalidated", "Failed"} /\ pc'[i] # pc[i]) =>
          pc'[i] = "Idle"

C7_State(i) ==
    op[i] = "delete" =>
        /\ result[i].kind \in {"pending", "state", "undefined"}
        /\ \A k \in 1 .. Len(trace[i]) : trace[i][k] # "redirect"
        /\ pc[i] = "Persisting" => ENABLED sqlSucceeds(i)
        /\ pc[i] \in {"Succeeded", "Invalidated"} => id[i] \notin DOMAIN invoices
        /\ pc[i] = "Invalidated" =>
              /\ trace[i] = <<"sql", "revalidatePath">>
              /\ stale
              /\ result[i] = [kind |-> "undefined"]
        /\ pc[i] = "Failed" =>
              /\ trace[i] = <<"sql">>
              /\ result[i] = [kind |-> "state", state |->
                                [message |-> "Database Error: Failed to Delete Invoice."]]

\* C7: deleteInvoice(id) never throws and never redirects, and the store
\* accepts its statement for any id, matching or not; a statement that
\* succeeds removes exactly the row with that id and changes no other row,
\* so on a store without the row it changes nothing (a second delete leaves
\* what the first left), and the action then marks the listing stale and
\* returns nothing; a statement that fails leaves store and cache as they
\* were and the action returns 'Database Error: Failed to Delete Invoice.'.
C7_DeleteIdempotent ==
    /\ [][\A i \in Procs : C7_Step(i)]_vars
    /\ [](\A i \in Procs : C7_State(i))

C7_Witness ==
    /\ op[1] = "delete"
    /\ pc[1] = "Invalidated"
    /\ id[1] = 1
    /\ DOMAIN invoices = {2}
    /\ nextId = 3

(* C8 *)

C8_Step(i) ==
    (op[i] = "update" /\ pc[i] = "Persisting" /\ pc'[i] = "Succeeded") =>
        /\ DOMAIN invoices' = DOMAIN invoices
        /\ nextId' = nextId
        /\ \A r \in DOMAIN invoices :
              IF r = id[i]
              THEN /\ invoices'[r].date = invoices[r].date
                   /\ invoices'[r].customer_id = params[i].customerId
                   /\ invoices'[r].amount = params[i].amountInCents
                   /\ invoices'[r].status = params[i].status
                   /\ DOMAIN invoices'[r] = DOMAIN invoices[r]
              ELSE invoices'[r] = invoices[r]
        /\ id[i] \notin DOMAIN invoices => invoices' = invoices

C8_State(i) ==
    op[i] = "update" =>
        /\ (pc[i] = "Persisting" /\ id[i] \notin DOMAIN invoices) => ENABLED sqlSucceeds(i)
        /\ StatementSucceeded(i) => ~IsStateObject(result[i])
        /\ pc[i] = "Redirected" => result[i].kind = "redirect"

\* C8: an UPDATE of updateInvoice that succeeds sets customer_id, amount and
\* status of the row whose id matches to the bound values and changes
\* neither that row's date nor any other row nor the set of rows; with an
\* id that matches no row the store accepts the statement, the store is
\* left unchanged, and the action returns no error state: it goes on to
\* the redirect.
C8_UpdateFrame ==
    /\ [][\A i \in Procs : C8_Step(i)]_vars
    /\ [](\A i \in Procs : C8_State(i))

C8_Witness ==
    /\ op[1] = "update"
    /\ pc[1] = "Redirected"
    /\ id[1] = 1
    /\ DOMAIN invoices = {2}

(* C9 *)

C9_Propagates(i) ==
    /\ op[i] = "authenticate"
    /\ pc[i] = "SignInFailed"
    /\ thrown[i].class # "AuthError"
    /\ result[i] = [kind |-> "throw", error |-> thrown[i]]

\* C9 as stated: on every path each action returns a state object, except
\* authenticate when signIn rejects with an error that is not an AuthError.
C9_AlwaysStateObject ==
    \A i \in Procs : Ended(i) => IsStateObject(result[i]) \/ C9_Propagates(i)

\* C9, amended: on every error path (failed validation, failed statement,
\* AuthError from signIn) the action returns a state object, and the one
\* error that leaves an action is a non-AuthError leaving authenticate; on
\* the success paths no state object is returned: createInvoice and
\* updateInvoice leave through redirect, deleteInvoice and authenticate
\* return undefined.
C9_NoFatalError ==
    \A i \in Procs : Ended(i) =>
        /\ pc[i] \in {"Invalid", "Failed"} => IsStateObject(result[i])
        /\ pc[i] = "SignInFailed" =>
              IF thrown[i].class = "AuthError" THEN IsStateObject(result[i])
              ELSE C9_Propagates(i)
        /\ pc[i] = "Redirected" => result[i].kind = "redirect"
        /\ pc[i] \in {"Invalidated", "SignedIn"} => result[i].kind = "undefined"
        /\ result[i].kind = "throw" => C9_Propagates(i)
        /\ pc[i] \in {"Invalid", "Failed", "SignInFailed", "Redirected",
                      "Invalidated", "SignedIn"}

C9_Witness ==
    /\ op[1] = "delete"
    /\ pc[1] = "Failed"
    /\ IsStateObject(result[1])

(* C10 *)

C10_Quiescent == \A i \in Procs : pc[i] = "Idle" \/ Terminal(i)

C10_Step ==
    /\ invoices' # invoices => \E i \in Procs : pc[i] = "Persisting" /\ pc'[i] = "Succeeded"
    /\ \A i \in Procs :
          (Len(trace'[i]) > Len(trace[i]) /\ trace'[i][Len(trace'[i])] = "revalidatePath")
              => pc[i] = "Succeeded" /\ stale'

C10_State ==
    /\ (~stale /\ listing # invoices) => \E i \in Procs : pc[i] = "Succeeded"
    /\ C10_Quiescent => stale \/ listing = invoices
    /\ \A i \in Procs :
          (Terminal(i) /\ StatementSucceeded(i)) =>
              \E k \in 1 .. Len(trace[i]) : trace[i][k] = "revalidatePath"

\* C10: with createInvoice, updateInvoice and deleteInvoice invocations
\* interleaved with one another and with readers that recompute a stale
\* listing from the store, the store changes only in the step in which an
\* invocation's statement succeeds, that invocation calls revalidatePath
\* only afterwards, and an invocation that ended after a successful
\* statement has called it; so a listing that is neither stale nor equal to
\* the store means some invocation is between its write and its
\* invalidation, and once every invocation has ended the listing is stale
\* or equal to the store.
C10_CacheCoherence ==
    /\ [][C10_Step]_vars
    /\ []C10_State

C10_Witness ==
    /\ \A i \in Procs : Terminal(i) /\ StatementSucceeded(i)
    /\ ~stale
    /\ listing = invoices
    /\ invoices # <<>>

====
